---- MODULE Spec2Model ----
(***************************************************************************)
(* Model of borderless-parser, src/parser.py: the listing walker and the   *)
(* enrichment pipeline of fetch_full_stories (sequential and               *)
(* ThreadPoolExecutor modes), with the remote listing endpoint and the     *)
(* individual story pages as a nondeterministic environment.               *)
(***************************************************************************)
EXTENDS Integers, Sequences, FiniteSets, Bags, TLC

\* ------------------------------------------------------------- bounds
MaxPages == 2        \* listing requests one run may issue
MaxListed == 3       \* items the listing endpoint returns in all, over every page
MaxCount == 2        \* largest finite budget passed as count
MaxWorkers == 2      \* largest max_workers passed
MaxNodes == 4        \* nodes of one article the segmenter is given

\* ------------------------------------------------------------- constants
batch_size == 10     \* parser.py:231
UNLIMITED == -1      \* parser.py:217, the default count

\* Python's None, for the optional cursor and the pending exception.
None == [none |-> TRUE]

\* Cursor (parser.py:38-40): the server's opaque token for the position after
\* a page, a score and a creation time (those of the page's last item).
CursorAfter(page) == [score |-> page, createdAt |-> page]

\* The default of max_workers (parser.py:217); sequential mode never reads it.
default_max_workers == 5

\* What the individual page endpoint can answer to requests.get (line 148):
\* the transport fails, or a status code comes back with or without an
\* <article> element in the markup.
PageResponses == [neterr : BOOLEAN, status : {200, 404, 500}, article : BOOLEAN]

\* How a listing request can fail inside fetch_stories (lines 129-133).
ListingFailures == {"ConnectionError", "HTTPError", "JSONDecodeError"}

VARIABLES
    count,            \* argument count
    parallel,         \* argument parallel
    max_workers,      \* argument max_workers
    pc,               \* "fetch" | "enrich" | "returned" | "raised"
    cursor,           \* local cursor (line 230)
    stories_response, \* local stories_response (line 244)
    batch_stories,    \* local batch_stories (line 249)
    all_stories,      \* local all_stories (line 229)
    i,                \* position of the sequential for loop (line 269)
    futures,          \* state of each submitted future (lines 255-258)
    collected,        \* futures already yielded by as_completed (line 261)
    result,           \* the returned list, meaningful when pc = "returned"
    exception,        \* the exception no handler of the loop caught, or None
    listing_requests, \* the listing requests issued, in order
    item_requests,    \* the individual-page requests issued, per item
    segmented,        \* the runs of the segmenting pass (lines 158-199), per item
    listing,          \* every item the listing endpoint returned, in order
    failed            \* items whose process_story raised

walker_vars == <<count, parallel, max_workers, pc, cursor, stories_response,
                 batch_stories, all_stories, i, futures, collected, result,
                 exception, listing_requests, item_requests, segmented, listing,
                 failed>>

\* One call of parse_story past the article lookup (lines 158-215).
VARIABLES
    seg_pc,           \* "idle" | "article" (line 164) | "div" (line 171) | "done"
    doc,              \* the nodes the two loops have been given so far, in order
    sections,         \* local sections (line 159)
    current_section,  \* local current_section (line 160)
    main_image,       \* local main_image (line 161)
    parsed            \* the dict returned at lines 208-215, or None

seg_vars == <<seg_pc, doc, sections, current_section, main_image, parsed>>

vars == <<walker_vars, seg_vars>>

\* ------------------------------------------------------------- helpers
Range(s) == {s[k] : k \in 1..Len(s)}

Min(a, b) == IF a < b THEN a ELSE b

\* raise_for_status (line 149): 4xx and 5xx raise HTTPError.
raise_for_status(status) == status >= 400 /\ status < 600

\* parse_story (lines 145-156) up to the article lookup: the exception it
\* raises for a page response, "none" when segmentation goes ahead.
parse_story_raises(resp) ==
    IF resp.neterr THEN "ConnectionError"
    ELSE IF raise_for_status(resp.status) THEN "HTTPError"
    ELSE IF ~resp.article THEN "ValueError"
    ELSE "none"

\* The handlers of lines 265 and 273 look at one thing of an exception:
\* whether it is an instance of Exception.  requests' ConnectionError and
\* HTTPError (IOError subclasses) and ValueError all are.
exception_class(kind) ==
    IF kind \in {"ConnectionError", "HTTPError", "ValueError"}
    THEN "Exception" ELSE "BaseException"

\* ------------------------------------------------------------- segmenter

\* Markup text is a sequence of characters; a node's text is the sequence of
\* the strings beneath it.
Blank == << <<" ">> >>
Intro == << <<" ", "I", " ">> >>
NextT == << <<"N">> >>
Hello == << <<" ", "H", " ">> >>
World == << <<"W", " ">>, <<" ", "!">> >>

\* An image source: img.get('src') gives None for an img without the
\* attribute.
Url(u) == [url |-> u]

\* str.strip() on the left and on the right.
RECURSIVE lstrip(_)
lstrip(str) ==
    IF str = <<>> \/ Head(str) # " " THEN str ELSE lstrip(Tail(str))

RECURSIVE rstrip(_)
rstrip(str) ==
    IF str = <<>> \/ str[Len(str)] # " " THEN str
    ELSE rstrip(SubSeq(str, 1, Len(str) - 1))

strip(str) == rstrip(lstrip(str))

\* get_text(strip=True) (lines 179, 186): every string beneath the node
\* stripped, the empty ones dropped, the rest joined with nothing between.
RECURSIVE get_text(_)
get_text(strings) ==
    IF strings = <<>> THEN <<>>
    ELSE strip(Head(strings)) \o get_text(Tail(strings))

\* The nodes a wrapper can hold: headings, paragraphs, figures (without an
\* img, with an img without src, with an img and its src), and a nested
\* wrapper, which no branch of lines 172-195 matches.
Headings == {[name |-> "h1", text |-> t] : t \in {Blank, Intro, NextT}}
Paragraphs == {[name |-> "p", text |-> t] : t \in {Hello, World}}
Figures ==
    {[name |-> "figure", img |-> FALSE, src |-> None]}
    \cup {[name |-> "figure", img |-> TRUE, src |-> u] :
              u \in {None, Url("1.png"), Url("2.png")}}
NestedDiv == [name |-> "div"]

\* The children of the article that are neither an anchor nor a wrapper.
DirectNodes ==
    {[name |-> "h1", text |-> Intro], [name |-> "p", text |-> Hello],
     [name |-> "figure", img |-> TRUE, src |-> Url("1.png")]}

\* A node as the loops meet it: under the article (line 164) or under a
\* wrapper (line 171).
UnderArticle(node) == [at |-> "article", node |-> node]
UnderDiv(node) == [at |-> "div", node |-> node]

\* A node the loops never meet: under an anchor of the article, or under a
\* wrapper that lies in a wrapper.
UnderAnchor(node) == [at |-> "a", node |-> node]
UnderNested(node) == [at |-> "nested", node |-> node]

\* What an anchor or a nested wrapper holds: nothing, or one content node.
Beneath == {<<>>} \cup {<<node>> : node \in DirectNodes}

\* The locals of parse_story as one value.
SegLocals(secs, cur, img) ==
    [sections |-> secs, current_section |-> cur, main_image |-> img]

\* The heading keeps the section in progress instead of appending it.
on_h1_drop(st, text) ==
    SegLocals(st.sections,
              [title |-> get_text(text), content |-> <<>>, images |-> <<>>],
              st.main_image)

\* The section in progress is put in front of the list.
on_h1_front(st, text) ==
    SegLocals(IF st.current_section # None
              THEN <<st.current_section>> \o st.sections ELSE st.sections,
              [title |-> get_text(text), content |-> <<>>, images |-> <<>>],
              st.main_image)

\* Lines 172-182: an h1 ends the section in progress and starts a new one.
on_h1(st, text) ==
    SegLocals(IF st.current_section # None
              THEN Append(st.sections, st.current_section) ELSE st.sections,
              [title |-> get_text(text), content |-> <<>>, images |-> <<>>],
              st.main_image)

\* A paragraph met before any heading opens a section without a title.
on_p_opens(st, text) ==
    SegLocals(st.sections,
              IF st.current_section # None
              THEN [st.current_section EXCEPT
                        !.content = @ \o get_text(text) \o <<"\n">>]
              ELSE [title |-> <<>>, content |-> get_text(text) \o <<"\n">>,
                    images |-> <<>>],
              st.main_image)

\* The paragraph's text added without the newline after it.
on_p_no_newline(st, text) ==
    SegLocals(st.sections,
              IF st.current_section # None
              THEN [st.current_section EXCEPT !.content = @ \o get_text(text)]
              ELSE st.current_section,
              st.main_image)

\* Lines 184-186: a paragraph adds its text and a newline to the section in
\* progress, if there is one.
on_p(st, text) ==
    SegLocals(st.sections,
              IF st.current_section # None
              THEN [st.current_section EXCEPT
                        !.content = @ \o get_text(text) \o <<"\n">>]
              ELSE st.current_section,
              st.main_image)

\* "if img and img.get('src')" (line 190).
has_src(fig) == fig.img /\ fig.src # None /\ fig.src # Url("")

\* The main image assigned at every figure.
on_figure_last(st, fig) ==
    IF has_src(fig)
    THEN SegLocals(st.sections,
                   IF st.current_section # None
                   THEN [st.current_section EXCEPT !.images = Append(@, fig.src)]
                   ELSE st.current_section,
                   fig.src)
    ELSE st

\* The image that becomes the main image kept out of the section's list.
on_figure_main_only(st, fig) ==
    IF has_src(fig)
    THEN IF st.main_image = None
         THEN SegLocals(st.sections, st.current_section, fig.src)
         ELSE SegLocals(st.sections,
                        IF st.current_section # None
                        THEN [st.current_section EXCEPT
                                  !.images = Append(@, fig.src)]
                        ELSE st.current_section,
                        st.main_image)
    ELSE st

\* Lines 188-195: a figure with an image source sets the main image if none
\* is set and adds the source to the section in progress, if there is one.
on_figure(st, fig) ==
    IF has_src(fig)
    THEN SegLocals(st.sections,
                   IF st.current_section # None
                   THEN [st.current_section EXCEPT !.images = Append(@, fig.src)]
                   ELSE st.current_section,
                   IF st.main_image = None THEN fig.src ELSE st.main_image)
    ELSE st

\* Lines 197-199: the section in progress at the end of the pass is appended.
final_sections(st) ==
    IF st.current_section # None
    THEN Append(st.sections, st.current_section) ELSE st.sections

\* The anchor entered like a wrapper: its children handled by lines 172-195.
on_node_into_anchor(st, tok) ==
    IF tok.at \notin {"div", "a"} THEN st
    ELSE IF tok.node.name = "h1" THEN on_h1(st, tok.node.text)
    ELSE IF tok.node.name = "p" THEN on_p(st, tok.node.text)
    ELSE IF tok.node.name = "figure" THEN on_figure(st, tok.node)
    ELSE st

\* A walk of the whole tree: the children of the article and of a nested
\* wrapper handled by lines 172-195 too.
on_node_any_depth(st, tok) ==
    IF tok.at \notin {"div", "article", "nested"} THEN st
    ELSE IF tok.node.name = "h1" THEN on_h1(st, tok.node.text)
    ELSE IF tok.node.name = "p" THEN on_p(st, tok.node.text)
    ELSE IF tok.node.name = "figure" THEN on_figure(st, tok.node)
    ELSE st

\* Lines 164-195 for one node: only the children of a wrapper are looked at.
on_node(st, tok) ==
    IF tok.at # "div" THEN st
    ELSE IF tok.node.name = "h1" THEN on_h1(st, tok.node.text)
    ELSE IF tok.node.name = "p" THEN on_p(st, tok.node.text)
    ELSE IF tok.node.name = "figure" THEN on_figure(st, tok.node)
    ELSE st

RECURSIVE segment(_, _)
segment(st, toks) ==
    IF toks = <<>> THEN st ELSE segment(on_node(st, Head(toks)), Tail(toks))

\* parse_story (lines 158-215) on an article given as its nodes in document
\* order: the dict returned.
parse_story(toks) ==
    LET st == segment(SegLocals(<<>>, None, None), toks)
    IN [sections |-> final_sections(st), mainImage |-> st.main_image]

\* A summary of the listing: the idx-th item of the page-th response.  The
\* pair stands for the slug and the other metadata of a StoryItem.
Summary(page, idx) == [page |-> page, idx |-> idx]

\* The slug of a summary names the individual page (line 237); here items of
\* odd and of even position in their page stand for two pages.
slug(story) == story.idx % 2

\* The article the individual page of a slug holds when it holds one.  The
\* first has a wrapper with two titled sections and a figure, the second an
\* anchor and a wrapper with a figure and a paragraph but no heading.
ArticleAt(s) ==
    IF s = 1
    THEN <<UnderArticle([name |-> "div"]),
           UnderDiv([name |-> "h1", text |-> Intro]),
           UnderDiv([name |-> "p", text |-> Hello]),
           UnderDiv([name |-> "figure", img |-> TRUE, src |-> Url("1.png")]),
           UnderDiv([name |-> "h1", text |-> NextT]),
           UnderDiv([name |-> "p", text |-> World])>>
    ELSE <<UnderArticle([name |-> "a"]),
           UnderArticle([name |-> "div"]),
           UnderDiv([name |-> "figure", img |-> TRUE, src |-> Url("2.png")]),
           UnderDiv([name |-> "p", text |-> Hello])>>
ArticleOf(story) == ArticleAt(slug(story))

\* What parse_story returns for each of the two pages.
parsed_content == [s \in {0, 1} |-> parse_story(ArticleAt(s))]

\* A record built from a pass that was not finished: the section in progress
\* is missing.
process_story_partial(story) ==
    LET st == segment(SegLocals(<<>>, None, None), ArticleOf(story))
    IN [page |-> story.page, idx |-> story.idx,
        sections |-> st.sections, mainImage |-> st.main_image]

\* process_story (lines 233-240) once parse_story has returned: the summary's
\* fields kept, 'sections' and 'mainImage' of the parsed content added.
process_story(story) ==
    [page |-> story.page, idx |-> story.idx,
     sections |-> parsed_content[slug(story)].sections,
     mainImage |-> parsed_content[slug(story)].mainImage]

\* A handler that lets every exception through, as if line 273 were missing.
except_seq_reraise(cls) == FALSE

\* "except Exception" of the sequential loop (line 273).
except_seq(cls) == cls = "Exception"

\* A handler that lets every exception through, as if line 265 were missing.
except_par_reraise(cls) == FALSE

\* "except Exception" around future.result() (line 265).
except_par(cls) == cls = "Exception"

\* batch_stories.insert(0, full_story) in place of append.
list_insert_front(lst, rec) == <<rec>> \o lst

\* batch_stories.append(full_story) (lines 264 and 272).
list_append(lst, rec) == Append(lst, rec)

\* The batch put in front of the list in place of extend.
list_extend_front(lst, batch) == batch \o lst

\* all_stories.extend(batch_stories) (line 277).
list_extend(lst, batch) == lst \o batch

\* return all_stories, the slice forgotten.
slice_none(lst, n) == lst

\* all_stories[:count - 1], one record short.
slice_short(lst, n) == SubSeq(lst, 1, Min(n - 1, Len(lst)))

\* all_stories[len(all_stories) - count:], the tail kept in place of the head.
slice_tail(lst, n) == SubSeq(lst, Len(lst) - Min(n, Len(lst)) + 1, Len(lst))

\* all_stories[:count] (line 281), for count >= 0.
slice_to(lst, n) == SubSeq(lst, 1, Min(n, Len(lst)))

\* len(all_stories) > count in place of >=.
budget_exceeded(cnt, n) == cnt # UNLIMITED /\ n > cnt

\* count != -1 and len(all_stories) >= count (line 280).
budget_reached(cnt, n) == cnt # UNLIMITED /\ n >= cnt

\* A loop that never looks at the cursor.
not_cursor_never(c) == FALSE

\* "not cursor" (line 287): None is falsy, a Cursor with its two keys is not.
not_cursor(c) == c = None

\* A payload that leaves the cursor out whatever it is.
payload_without_cursor(limit, cur) == [limit |-> limit, cursor |-> None]

\* A payload built with the default page size of the signature (line 77)
\* instead of the one passed.
payload_default_limit(limit, cur) ==
    [limit |-> 1, cursor |-> IF cur # None THEN cur ELSE None]

\* create_request_payload (lines 75-100) as fetch_stories calls it at line
\* 122: the page size and, "if cursor", the cursor as it was passed.
create_request_payload(limit, cur) ==
    [limit |-> limit, cursor |-> IF cur # None THEN cur ELSE None]

\* The futures of the running pool, by state.
Pending == {j \in DOMAIN futures : futures[j] = "pending"}
Running == {j \in DOMAIN futures : futures[j] = "running"}
Finished == {j \in DOMAIN futures : futures[j] \notin {"pending", "running"}}

\* ------------------------------------------------------------- initial state
\* fetch_full_stories is entered (lines 217-231).
WalkerInit ==
    /\ count \in {UNLIMITED} \cup (0..MaxCount)
    /\ parallel \in BOOLEAN
    /\ max_workers \in IF parallel THEN 1..MaxWorkers ELSE {default_max_workers}
    /\ pc = "fetch"
    /\ cursor = None
    /\ stories_response = [items |-> <<>>, nextCursor |-> None]
    /\ batch_stories = <<>>
    /\ all_stories = <<>>
    /\ i = 1
    /\ futures = <<>>
    /\ collected = {}
    /\ result = <<>>
    /\ exception = None
    /\ listing_requests = <<>>
    /\ item_requests = EmptyBag
    /\ segmented = EmptyBag
    /\ listing = <<>>
    /\ failed = {}

\* No call of parse_story is being followed.
SegIdle ==
    /\ seg_pc = "idle"
    /\ doc = <<>>
    /\ sections = <<>>
    /\ current_section = None
    /\ main_image = None
    /\ parsed = None

Init == WalkerInit /\ SegIdle

\* ------------------------------------------------------------- actions

\* Lines 244-258: fetch_stories(limit=batch_size, cursor=cursor) answers with m
\* items and, when more is set, a next cursor; batch_stories is reset; in
\* parallel mode the pool is created and every item is submitted.
FetchOk(m, more) ==
    /\ UNCHANGED seg_vars
    /\ pc = "fetch"
    /\ Len(listing_requests) < MaxPages
    /\ Len(listing) + m <= MaxListed
    /\ LET page == Len(listing_requests) + 1
           items == [k \in 1..m |-> Summary(page, k)]
       IN /\ listing_requests' =
                 Append(listing_requests, create_request_payload(batch_size, cursor))
          /\ stories_response' =
                 [items |-> items,
                  nextCursor |-> IF more THEN CursorAfter(page) ELSE None]
          /\ listing' = listing \o items
          /\ futures' = IF parallel THEN [k \in 1..m |-> "pending"] ELSE <<>>
    /\ batch_stories' = <<>>
    /\ collected' = {}
    /\ i' = 1
    /\ pc' = "enrich"
    /\ UNCHANGED <<count, parallel, max_workers, cursor, all_stories, result,
                   exception, item_requests, segmented, failed>>

\* The listing failure caught and the records gathered so far returned.
FetchFailPartial(kind) ==
    /\ UNCHANGED seg_vars
    /\ pc = "fetch"
    /\ Len(listing_requests) < MaxPages
    /\ listing_requests' =
           Append(listing_requests, [limit |-> batch_size, cursor |-> cursor])
    /\ exception' = [none |-> FALSE, kind |-> kind, at |-> "fetch_stories"]
    /\ result' = all_stories
    /\ pc' = "returned"
    /\ UNCHANGED <<count, parallel, max_workers, cursor, stories_response,
                   batch_stories, all_stories, i, futures, collected,
                   item_requests, segmented, listing, failed>>

\* Lines 129-133 raising inside the call of line 244: nothing in
\* fetch_full_stories catches it.
FetchFail(kind) ==
    /\ UNCHANGED seg_vars
    /\ pc = "fetch"
    /\ Len(listing_requests) < MaxPages
    /\ listing_requests' =
           Append(listing_requests, create_request_payload(batch_size, cursor))
    /\ exception' = [none |-> FALSE, kind |-> kind, at |-> "fetch_stories"]
    /\ pc' = "raised"
    /\ UNCHANGED <<count, parallel, max_workers, cursor, stories_response,
                   batch_stories, all_stories, i, futures, collected, result,
                   item_requests, segmented, listing, failed>>

\* Lines 269-274: one iteration of the sequential loop, the page answering resp.
SeqProcess(resp) ==
    /\ UNCHANGED seg_vars
    /\ pc = "enrich"
    /\ ~parallel
    /\ i <= Len(stories_response.items)
    /\ LET story == stories_response.items[i]
           e == parse_story_raises(resp)
       IN /\ item_requests' = item_requests (+) SetToBag({story})
          /\ IF e = "none"
             THEN /\ batch_stories' = list_append(batch_stories, process_story(story))
                  /\ segmented' = segmented (+) SetToBag({story})
                  /\ i' = i + 1
                  /\ UNCHANGED <<failed, pc, exception>>
             ELSE /\ failed' = failed \cup {story}
                  /\ UNCHANGED segmented
                  /\ IF except_seq(exception_class(e))
                     THEN /\ i' = i + 1
                          /\ UNCHANGED <<pc, exception>>
                     ELSE /\ pc' = "raised"
                          /\ exception' = [none |-> FALSE, kind |-> e, at |-> "process_story"]
                          /\ UNCHANGED i
                  /\ UNCHANGED batch_stories
    /\ UNCHANGED <<count, parallel, max_workers, cursor, stories_response,
                   all_stories, futures, collected, result, listing_requests,
                   listing>>

\* A pool that starts a thread for every queued work item, whatever its width.
WorkerStartUnbounded ==
    /\ UNCHANGED seg_vars
    /\ pc = "enrich"
    /\ parallel
    /\ Pending # {}
    /\ LET j == CHOOSE k \in Pending : \A l \in Pending : k <= l
       IN /\ futures' = [futures EXCEPT ![j] = "running"]
          /\ item_requests' = item_requests (+) SetToBag({stories_response.items[j]})
    /\ UNCHANGED <<count, parallel, max_workers, pc, cursor, stories_response,
                   batch_stories, all_stories, i, collected, result, exception,
                   listing_requests, segmented, listing, failed>>

\* A pool thread takes the oldest queued work item (the executor's queue is
\* FIFO) while fewer than max_workers threads are busy, and sends the request
\* of line 148.
WorkerStart ==
    /\ UNCHANGED seg_vars
    /\ pc = "enrich"
    /\ parallel
    /\ Pending # {}
    /\ Cardinality(Running) < max_workers
    /\ LET j == CHOOSE k \in Pending : \A l \in Pending : k <= l
       IN /\ futures' = [futures EXCEPT ![j] = "running"]
          /\ item_requests' = item_requests (+) SetToBag({stories_response.items[j]})
    /\ UNCHANGED <<count, parallel, max_workers, pc, cursor, stories_response,
                   batch_stories, all_stories, i, collected, result, exception,
                   listing_requests, segmented, listing, failed>>

\* A worker that appends its merged record to batch_stories itself.
WorkerFinishAppends(j, resp) ==
    /\ UNCHANGED seg_vars
    /\ pc = "enrich"
    /\ parallel
    /\ j \in Running
    /\ LET e == parse_story_raises(resp)
       IN IF e = "none"
          THEN /\ futures' = [futures EXCEPT ![j] = "ok"]
               /\ segmented' = segmented (+) SetToBag({stories_response.items[j]})
               /\ batch_stories' =
                      list_append(batch_stories, process_story(stories_response.items[j]))
               /\ UNCHANGED failed
          ELSE /\ futures' = [futures EXCEPT ![j] = exception_class(e)]
               /\ failed' = failed \cup {stories_response.items[j]}
               /\ UNCHANGED segmented
               /\ UNCHANGED batch_stories
    /\ UNCHANGED <<count, parallel, max_workers, pc, cursor, stories_response,
                   all_stories, i, collected, result, exception,
                   listing_requests, item_requests, listing>>

\* The worker of future j gets resp and finishes process_story: the future
\* holds the merged record, or the exception (kept by its class).
WorkerFinish(j, resp) ==
    /\ UNCHANGED seg_vars
    /\ pc = "enrich"
    /\ parallel
    /\ j \in Running
    /\ LET e == parse_story_raises(resp)
       IN IF e = "none"
          THEN /\ futures' = [futures EXCEPT ![j] = "ok"]
               /\ segmented' = segmented (+) SetToBag({stories_response.items[j]})
               /\ UNCHANGED failed
          ELSE /\ futures' = [futures EXCEPT ![j] = exception_class(e)]
               /\ failed' = failed \cup {stories_response.items[j]}
               /\ UNCHANGED segmented
    /\ UNCHANGED <<count, parallel, max_workers, pc, cursor, stories_response,
                   batch_stories, all_stories, i, collected, result, exception,
                   listing_requests, item_requests, listing>>

\* Lines 261-266: as_completed yields a finished future j not yet yielded and
\* the coordinating thread takes its result, which re-raises the worker's
\* exception.
Collect(j) ==
    /\ UNCHANGED seg_vars
    /\ pc = "enrich"
    /\ parallel
    /\ j \in Finished \ collected
    /\ collected' = collected \cup {j}
    /\ IF futures[j] = "ok"
       THEN /\ batch_stories' =
                   list_append(batch_stories, process_story(stories_response.items[j]))
            /\ UNCHANGED <<pc, exception>>
       ELSE /\ IF except_par(futures[j])
               THEN UNCHANGED <<pc, exception>>
               ELSE /\ pc' = "raised"
                    /\ exception' =
                          [none |-> FALSE, kind |-> futures[j], at |-> "process_story"]
            /\ UNCHANGED batch_stories
    /\ UNCHANGED <<count, parallel, max_workers, cursor, stories_response,
                   all_stories, i, futures, result, listing_requests,
                   item_requests, segmented, listing, failed>>

\* The pool left as soon as every work item has been started.
BatchCompleteEarly ==
    /\ pc = "enrich"
    /\ IF parallel
       THEN Pending = {}
       ELSE i > Len(stories_response.items)

\* The collecting loop left after the first future it was given.
BatchCompleteFirst ==
    /\ pc = "enrich"
    /\ IF parallel
       THEN collected # {} \/ futures = <<>>
       ELSE i > Len(stories_response.items)

\* The batch loop left as soon as the records in hand reach the budget.
BatchCompleteAtBudget ==
    /\ pc = "enrich"
    /\ \/ IF parallel
          THEN collected = DOMAIN futures
          ELSE i > Len(stories_response.items)
       \/ count # UNLIMITED /\ Len(all_stories) + Len(batch_stories) >= count

\* The batch loop of the selected mode has run to its end.
BatchComplete ==
    /\ pc = "enrich"
    /\ IF parallel
       THEN collected = DOMAIN futures
       ELSE i > Len(stories_response.items)

\* Lines 276-293: extend the result list, check the budget, adopt the cursor.
EndBatch ==
    /\ UNCHANGED seg_vars
    /\ BatchComplete
    /\ all_stories' = list_extend(all_stories, batch_stories)
    /\ IF budget_reached(count, Len(all_stories'))
       THEN /\ result' = slice_to(all_stories', count)
            /\ pc' = "returned"
            /\ UNCHANGED cursor
       ELSE /\ cursor' = stories_response.nextCursor
            /\ IF not_cursor(cursor')
               THEN /\ result' = all_stories'
                    /\ pc' = "returned"
               ELSE /\ pc' = "fetch"
                    /\ UNCHANGED result
    /\ UNCHANGED <<count, parallel, max_workers, stories_response,
                   batch_stories, i, futures, collected, exception,
                   listing_requests, item_requests, segmented, listing, failed>>

\* ------------------------------------------------------------- segmenter steps

\* The locals of the call being followed.
SegState == SegLocals(sections, current_section, main_image)

\* The loops are given tok and the locals become st.
SegTake(tok, st) ==
    /\ Len(doc) < MaxNodes
    /\ doc' = Append(doc, tok)
    /\ sections' = st.sections
    /\ current_section' = st.current_section
    /\ main_image' = st.main_image
    /\ UNCHANGED parsed
    /\ UNCHANGED walker_vars

\* The loops pass over toks, a node and all it holds, in one iteration.
SegPass(toks) ==
    LET st == segment(SegState, toks)
    IN /\ Len(doc) + Len(toks) <= MaxNodes
       /\ doc' = doc \o toks
       /\ sections' = st.sections
       /\ current_section' = st.current_section
       /\ main_image' = st.main_image
       /\ UNCHANGED parsed
       /\ UNCHANGED walker_vars

\* Lines 166-167: an anchor under the article is skipped with what it holds.
SegAnchor(kids) ==
    /\ seg_pc = "article"
    /\ SegPass(<<UnderArticle([name |-> "a"])>>
                   \o [k \in 1..Len(kids) |-> UnderAnchor(kids[k])])
    /\ UNCHANGED seg_pc

\* Line 169 false: a child of the article that is neither an anchor nor a
\* wrapper is passed over.
SegDirect(node) ==
    /\ seg_pc = "article"
    /\ SegTake(UnderArticle(node), on_node(SegState, UnderArticle(node)))
    /\ UNCHANGED seg_pc

\* Lines 169-171: a wrapper under the article is entered.
SegEnterDiv ==
    /\ seg_pc = "article"
    /\ SegTake(UnderArticle([name |-> "div"]), SegState)
    /\ seg_pc' = "div"

\* Lines 172-182: an h1 in the wrapper.
SegHeading(node) ==
    /\ seg_pc = "div"
    /\ SegTake(UnderDiv(node), on_node(SegState, UnderDiv(node)))
    /\ UNCHANGED seg_pc

\* Lines 184-186: a p in the wrapper.
SegParagraph(node) ==
    /\ seg_pc = "div"
    /\ SegTake(UnderDiv(node), on_node(SegState, UnderDiv(node)))
    /\ UNCHANGED seg_pc

\* Lines 188-195: a figure in the wrapper.
SegFigure(node) ==
    /\ seg_pc = "div"
    /\ SegTake(UnderDiv(node), on_node(SegState, UnderDiv(node)))
    /\ UNCHANGED seg_pc

\* No branch of lines 172-195 matches: a wrapper inside the wrapper is
\* passed over with all it holds.
SegNested(kids) ==
    /\ seg_pc = "div"
    /\ SegPass(<<UnderDiv(NestedDiv)>>
                   \o [k \in 1..Len(kids) |-> UnderNested(kids[k])])
    /\ UNCHANGED seg_pc

\* The section in progress appended when the wrapper ends.
SegLeaveDivFinalizes ==
    /\ seg_pc = "div"
    /\ seg_pc' = "article"
    /\ sections' = final_sections(SegState)
    /\ current_section' = None
    /\ UNCHANGED <<doc, main_image, parsed>>
    /\ UNCHANGED walker_vars

\* The inner loop of line 171 has no more children.
SegLeaveDiv ==
    /\ seg_pc = "div"
    /\ seg_pc' = "article"
    /\ UNCHANGED <<doc, sections, current_section, main_image, parsed>>
    /\ UNCHANGED walker_vars

\* Lines 197-215: the outer loop has ended; the section in progress is
\* appended and the dict is returned.
SegFinish ==
    /\ seg_pc = "article"
    /\ seg_pc' = "done"
    /\ sections' = final_sections(SegState)
    /\ parsed' = [sections |-> sections', mainImage |-> main_image]
    /\ UNCHANGED <<doc, current_section, main_image>>
    /\ UNCHANGED walker_vars

\* parse_story has found the article (line 153) of some page.
SegInit ==
    /\ count = UNLIMITED
    /\ parallel = FALSE
    /\ max_workers = default_max_workers
    /\ pc = "enrich"
    /\ cursor = None
    /\ stories_response = [items |-> <<Summary(1, 1)>>, nextCursor |-> None]
    /\ batch_stories = <<>>
    /\ all_stories = <<>>
    /\ i = 1
    /\ futures = <<>>
    /\ collected = {}
    /\ result = <<>>
    /\ exception = None
    /\ listing_requests = <<create_request_payload(batch_size, None)>>
    /\ item_requests = SetToBag({Summary(1, 1)})
    /\ segmented = EmptyBag
    /\ listing = <<Summary(1, 1)>>
    /\ failed = {}
    /\ seg_pc = "article"
    /\ doc = <<>>
    /\ sections = <<>>
    /\ current_section = None
    /\ main_image = None
    /\ parsed = None

SegNext ==
    \/ \E kids \in Beneath : SegAnchor(kids)
    \/ \E node \in DirectNodes : SegDirect(node)
    \/ SegEnterDiv
    \/ \E node \in Headings : SegHeading(node)
    \/ \E node \in Paragraphs : SegParagraph(node)
    \/ \E node \in Figures : SegFigure(node)
    \/ \E kids \in Beneath : SegNested(kids)
    \/ SegLeaveDiv
    \/ SegFinish

SegSpec == SegInit /\ [][SegNext]_vars

Enrich ==
    \/ \E resp \in PageResponses : SeqProcess(resp)
    \/ WorkerStart
    \/ \E j \in 1..MaxListed, resp \in PageResponses : WorkerFinish(j, resp)
    \/ \E j \in 1..MaxListed : Collect(j)
    \/ EndBatch

Next ==
    \/ \E m \in 0..MaxListed, more \in BOOLEAN : FetchOk(m, more)
    \/ \E kind \in ListingFailures : FetchFail(kind)
    \/ \E resp \in PageResponses : SeqProcess(resp)
    \/ WorkerStart
    \/ \E j \in 1..MaxListed, resp \in PageResponses : WorkerFinish(j, resp)
    \/ \E j \in 1..MaxListed : Collect(j)
    \/ EndBatch

Spec == Init /\ [][Next]_vars

\* The coordinating thread and the pool threads keep running, and every
\* individual request returns or raises: a batch being enriched is finished.
FairSpec == Spec /\ WF_vars(Enrich)

\* ------------------------------------------------------------- properties

\* fetch_full_stories has returned a list for a finite budget.
ReturnedWithBudget == pc = "returned" /\ count >= 0

\* The records of the first n items of the listing, in listing order.
ListingPrefix(n) ==
    [k \in 1..Min(n, Len(listing)) |-> process_story(listing[k])]

\* Items the listing endpoint had returned before the page-th request.
ListedBefore(page) ==
    Cardinality({k \in 1..Len(listing) : listing[k].page < page})

\* Records accumulated in all_stories before the page-th request.
AccumulatedBefore(page) ==
    Cardinality({k \in 1..Len(all_stories) : all_stories[k].page < page})

\* C1: for every finite budget N >= 0, every sequence of listing pages and
\* every pattern of per-item failures, the list fetch_full_stories returns
\* has at most N records.
C1_AtMostBudget == ReturnedWithBudget => Len(result) <= count

\* C1 witness: more records than the budget were accumulated and the list
\* returned was cut to the budget.
C1_Witness ==
    /\ ReturnedWithBudget
    /\ count >= 1
    /\ Len(all_stories) > count
    /\ Len(result) = count

\* C2: for every finite budget N >= 0, when fetch_full_stories returns while
\* the last listing response it received still carried a next cursor, the
\* returned list has exactly N records.
C2_ExactlyBudget ==
    (ReturnedWithBudget /\ stories_response.nextCursor # None)
        => Len(result) = count

\* C2 witness: the walk returned on its second page, whose response carried a
\* cursor, with the budget filled only then.
C2_Witness ==
    /\ ReturnedWithBudget
    /\ count >= 2
    /\ Len(listing_requests) = 2
    /\ stories_response.nextCursor # None
    /\ Len(result) = count

\* C3 as stated: once the listing endpoint has returned N or more items in
\* all, no further listing page is requested, whatever per-item failures
\* occur: every request after the first was issued with fewer than N items
\* listed.
C3_StopsOnListedItems ==
    count >= 0 =>
        \A page \in 2..Len(listing_requests) : ListedBefore(page) < count

\* C3 amended: the budget is measured on the records accumulated, not on the
\* items listed: every listing request after the first was issued with fewer
\* than N records in all_stories, so once a finished batch brings the
\* accumulated records to N or more no further page is requested.
C3_StopsOnAccumulatedRecords ==
    count >= 0 =>
        \A page \in 2..Len(listing_requests) : AccumulatedBefore(page) < count

\* C3 witness: the first page listed as many items as the budget, one of them
\* failed, a second page was requested, and the walk then stopped with the
\* budget filled although the listing had more to give.
C3_Witness ==
    /\ ReturnedWithBudget
    /\ count >= 1
    /\ Len(listing_requests) = 2
    /\ ListedBefore(2) >= count
    /\ AccumulatedBefore(2) < count
    /\ Len(result) = count
    /\ stories_response.nextCursor # None

\* C4 as stated: with a finite budget N and no per-item failure the list
\* returned is the first N items of the listing in listing order, in
\* sequential and in parallel mode alike.
C4_ListingPrefixBothModes ==
    (ReturnedWithBudget /\ failed = {}) => result = ListingPrefix(count)

\* C4 amended: with a finite budget N and no per-item failure, sequential
\* mode returns the first N items of the listing in listing order; parallel
\* mode returns N distinct records of the listing (all there are when the
\* listing is shorter), pages in listing order, every item of every page
\* before the last requested one among them, the records of the last page
\* being those whose futures were collected first.
C4_PrefixSequentialCompletionParallel ==
    (ReturnedWithBudget /\ failed = {}) =>
        /\ Len(result) = Min(count, Len(listing))
        /\ ~parallel => result = ListingPrefix(count)
        /\ \A a, b \in 1..Len(result) :
               a < b => /\ result[a] # result[b]
                        /\ result[a].page <= result[b].page
        /\ \A k \in 1..Len(result) :
               \E l \in 1..Len(listing) : result[k] = process_story(listing[l])
        /\ \A l \in 1..Len(listing) :
               listing[l].page < Len(listing_requests)
                   => process_story(listing[l]) \in Range(result)

\* C4 witness: sequential mode, no failure, a budget smaller than the page:
\* the list returned is the cut listing prefix.
C4_Witness ==
    /\ ReturnedWithBudget
    /\ ~parallel
    /\ failed = {}
    /\ count >= 1
    /\ Len(listing) > count
    /\ result = ListingPrefix(count)

\* The last listing response carried no next cursor and its batch is being
\* enriched.
LastPageInHand == pc = "enrich" /\ stories_response.nextCursor = None

\* The list the checks of lines 280-288 work on once a batch is finished.
Accumulated == all_stories \o batch_stories

\* C5: the walk ends as soon as a listing response carries no next cursor:
\* while that response's batch is enriched and afterwards no listing request
\* is issued, the only way out of the batch is the return, and the return
\* comes, whatever the accumulated count and with or without a budget.
C5_NoCursorEndsWalk ==
    /\ [][LastPageInHand =>
             /\ listing_requests' = listing_requests
             /\ pc' \in {"enrich", "returned"}]_vars
    /\ (LastPageInHand ~> pc = "returned")

\* C5 witness: a finite budget that was not reached, a second page without a
\* cursor, and the walk returned what it had.
C5_Witness ==
    /\ pc = "returned"
    /\ count >= 1
    /\ Len(listing_requests) = 2
    /\ stories_response.nextCursor = None
    /\ Len(result) < count
    /\ result = all_stories

\* C6: a listing request that fails aborts fetch_full_stories at once: the
\* exception leaves the function from the fetch itself, with no worker
\* running, no list is returned, and from then on no listing request and no
\* individual-page request is made (no retry).
C6_ListingFailureAborts ==
    /\ [](exception # None =>
             /\ pc = "raised"
             /\ exception.at = "fetch_stories"
             /\ Running = {})
    /\ [][/\ (exception = None /\ exception' # None) =>
                 /\ pc = "fetch"
                 /\ item_requests' = item_requests
                 /\ Len(listing_requests') = Len(listing_requests) + 1
          /\ exception # None =>
                 /\ listing_requests' = listing_requests
                 /\ item_requests' = item_requests
                 /\ pc' = "raised"]_vars

\* C6 witness: the second listing request failed after a first page whose
\* records had been accumulated: nothing is returned.
C6_Witness ==
    /\ pc = "raised"
    /\ exception # None
    /\ Len(listing_requests) = 2
    /\ Len(all_stories) >= 1
    /\ result = <<>>

\* Items of the batch in hand whose process_story raised.
FailedInBatch == failed \cap Range(stories_response.items)

\* C7: in both modes a finished batch of M summaries of which k failed, at
\* any positions, holds exactly M - k merged records, one for each item that
\* did not fail, and no exception of process_story leaves the batch.
C7_BatchIsolation ==
    /\ exception # None => exception.at # "process_story"
    /\ BatchComplete =>
           /\ Len(batch_stories) =
                  Len(stories_response.items) - Cardinality(FailedInBatch)
           /\ Range(batch_stories) =
                  {process_story(x) : x \in Range(stories_response.items) \ FailedInBatch}

\* C7 witness: a finished parallel batch of three items, the first and the
\* third failed, the second merged.
C7_Witness ==
    /\ BatchComplete
    /\ parallel
    /\ Len(stories_response.items) = 3
    /\ FailedInBatch = {Summary(1, 1), Summary(1, 3)}
    /\ batch_stories = <<process_story(Summary(1, 2))>>

\* C8: a per-item failure of any kind never aborts the walk: a batch being
\* enriched can always go on, and when it is finished the budget and cursor
\* checks are applied to the surviving records alone (as many as items listed
\* less those that failed) and decide the return or the next request.
C8_FailuresDoNotAbort ==
    /\ [](pc = "enrich" => ENABLED Enrich)
    /\ [][(pc = "enrich" /\ pc' # "enrich") =>
             /\ Len(Accumulated) = Len(listing) - Cardinality(failed)
             /\ IF count # UNLIMITED /\ Len(Accumulated) >= count
                THEN /\ pc' = "returned"
                     /\ result' = SubSeq(Accumulated, 1, count)
                ELSE IF stories_response.nextCursor = None
                THEN /\ pc' = "returned"
                     /\ result' = Accumulated
                ELSE /\ pc' = "fetch"
                     /\ cursor' = stories_response.nextCursor]_vars

\* C8 witness: in parallel mode an item of the first page failed, another
\* was merged, and the second page was requested and is being enriched.
C8_Witness ==
    /\ pc = "enrich"
    /\ parallel
    /\ Len(listing_requests) = 2
    /\ Summary(1, 1) \in failed
    /\ all_stories = <<process_story(Summary(1, 2))>>
    /\ cursor = CursorAfter(1)

\* C9: in sequential mode the merged records of a batch are in the order of
\* their summaries in the listing page, the failed items missing: the batch
\* is the subsequence of the items handled so far that did not fail.
C9_SequentialOrder ==
    (~parallel /\ pc = "enrich") =>
        /\ \A a, b \in 1..Len(batch_stories) :
               a < b => batch_stories[a].idx < batch_stories[b].idx
        /\ Range(batch_stories) =
               {process_story(stories_response.items[k]) :
                    k \in {l \in 1..(i - 1) : stories_response.items[l] \notin failed}}

\* C9 witness: a sequential batch of three items whose second item failed
\* holds the first and the third, in that order.
C9_Witness ==
    /\ ~parallel
    /\ BatchComplete
    /\ FailedInBatch = {Summary(1, 2)}
    /\ batch_stories = <<process_story(Summary(1, 1)), process_story(Summary(1, 3))>>

\* C10: in the overall output every record of listing page i precedes every
\* record of page j when i < j, in both modes and for every completion order:
\* all_stories and the list returned are sorted by page, and the batch in
\* hand holds records of the page in hand only.
C10_PagesInListingOrder ==
    /\ \A a, b \in 1..Len(all_stories) :
           a < b => all_stories[a].page <= all_stories[b].page
    /\ pc = "returned" =>
           \A a, b \in 1..Len(result) : a < b => result[a].page <= result[b].page
    /\ pc = "enrich" =>
           \A a \in 1..Len(batch_stories) :
               batch_stories[a].page = Len(listing_requests)

\* C10 witness: a parallel run returned the first page's two records in
\* reverse completion order, followed by the second page's record.
C10_Witness ==
    /\ pc = "returned"
    /\ parallel
    /\ result = <<process_story(Summary(1, 2)), process_story(Summary(1, 1)),
                  process_story(Summary(2, 1))>>

\* The item was enriched to its end: it failed, or its record is in
\* all_stories.
Settled(item) == item \in failed \/ process_story(item) \in Range(all_stories)

\* C11: there is no cross-batch concurrency: at the moment a listing request
\* is issued no future of an earlier batch is queued or running, all have
\* been collected, and every item listed so far has failed or has its record
\* in all_stories.
C11_NoCrossBatchConcurrency ==
    [][Len(listing_requests') > Len(listing_requests) =>
          /\ Pending = {}
          /\ Running = {}
          /\ collected = DOMAIN futures
          /\ \A k \in 1..Len(listing) : Settled(listing[k])]_vars

\* C11 witness: in parallel mode the second listing request has just been
\* issued, after a first batch of two items, one merged and one failed.
C11_Witness ==
    /\ parallel
    /\ pc = "enrich"
    /\ Len(listing_requests) = 2
    /\ futures = <<"pending">>
    /\ all_stories = <<process_story(Summary(1, 1))>>
    /\ failed = {Summary(1, 2)}

\* C12: in parallel mode the workers never write to batch_stories or
\* all_stories: a step of a worker leaves both alone, batch_stories grows only
\* by the coordinating thread appending the record of one finished future it
\* had not collected yet, and no record is in the batch twice.
C12_OnlyCoordinatorAppends ==
    /\ [][(pc = "enrich" /\ futures' # futures) =>
              UNCHANGED <<batch_stories, all_stories>>]_vars
    /\ [][(pc = "enrich" /\ parallel /\ batch_stories' # batch_stories) =>
              \E j \in Finished \ collected :
                  /\ futures[j] = "ok"
                  /\ collected' = collected \cup {j}
                  /\ batch_stories' =
                         Append(batch_stories, process_story(stories_response.items[j]))]_vars
    /\ [](\A a, b \in 1..Len(batch_stories) :
              a # b => batch_stories[a] # batch_stories[b])

\* C12 witness: two workers have both finished and the coordinating thread
\* has appended the record of the second, the first still to be collected.
C12_Witness ==
    /\ parallel
    /\ pc = "enrich"
    /\ max_workers = 2
    /\ futures = <<"ok", "ok">>
    /\ collected = {2}
    /\ batch_stories = <<process_story(Summary(1, 2))>>

\* C13: in parallel mode at most max_workers items of the batch in hand are
\* being enriched at any moment, the futures are those of the batch in hand,
\* and outside the enrichment of a batch no future is queued or running (the
\* pool lives for one batch).
C13_PoolWidthAndLifetime ==
    /\ Cardinality(Running) <= max_workers
    /\ pc # "enrich" => Pending = {} /\ Running = {}
    /\ (pc = "enrich" /\ parallel) =>
           DOMAIN futures = DOMAIN stories_response.items
    /\ ~parallel => futures = <<>>

\* C13 witness: a pool of width 2 has two items in flight and the third
\* queued.
C13_Witness ==
    /\ parallel
    /\ max_workers = 2
    /\ futures = <<"running", "running", "pending">>

\* The item did not fail.
NotFailed(item) == item \notin failed

\* The records of the listed items that did not fail, in listing order.
SurvivorsInListingOrder ==
    LET kept == SelectSeq(listing, NotFailed)
    IN [k \in 1..Len(kept) |-> process_story(kept[k])]

\* C14: with an unbounded budget the list returned is decided by the listing
\* pages and the set of failing items alone, up to the order inside a batch:
\* in both modes it holds the record of every item that did not fail, once,
\* and nothing else, pages in listing order; sequential mode returns them in
\* listing order.
C14_SameRecordsBothModes ==
    (pc = "returned" /\ count = UNLIMITED) =>
        /\ Len(result) = Len(listing) - Cardinality(failed)
        /\ Range(result) = Range(SurvivorsInListingOrder)
        /\ \A a, b \in 1..Len(result) :
               a < b => result[a].page <= result[b].page
        /\ ~parallel => result = SurvivorsInListingOrder

\* C14 witness: an unbounded parallel run whose second item failed returned
\* the third item's record before the first's.
C14_Witness ==
    /\ pc = "returned"
    /\ count = UNLIMITED
    /\ parallel
    /\ failed = {Summary(1, 2)}
    /\ result = <<process_story(Summary(1, 3)), process_story(Summary(1, 1))>>

\* C20: the cursor is round-tripped verbatim: the first listing request
\* carries no cursor and every later one carries the next cursor of the
\* response received just before it.
C20_CursorRoundTrip ==
    /\ [](listing_requests # <<>> => listing_requests[1].cursor = None)
    /\ [][Len(listing_requests') > Len(listing_requests) =>
              /\ Len(listing_requests') = Len(listing_requests) + 1
              /\ SubSeq(listing_requests', 1, Len(listing_requests)) = listing_requests
              /\ listing_requests # <<>> =>
                     /\ stories_response.nextCursor # None
                     /\ listing_requests'[Len(listing_requests')].cursor =
                            stories_response.nextCursor]_vars

\* C20 witness: two listing requests, the first without a cursor, the second
\* with the cursor of the first response.
C20_Witness ==
    /\ Len(listing_requests) = 2
    /\ listing_requests[1].cursor = None
    /\ listing_requests[2].cursor = CursorAfter(1)
    /\ pc = "enrich"

\* ------------------------------------------------------------- segmenter properties

\* The node is a heading, a paragraph, a figure with an image source, met
\* under a wrapper.
IsHeading(tok) == tok.at = "div" /\ tok.node.name = "h1"
IsParagraph(tok) == tok.at = "div" /\ tok.node.name = "p"
IsFigureWithImage(tok) ==
    tok.at = "div" /\ tok.node.name = "figure" /\ has_src(tok.node)

\* A figure with an image source anywhere in the article.
IsAnyFigureWithImage(tok) == tok.node.name = "figure" /\ has_src(tok.node)

\* C15: the sections returned are in the order of the heading nodes that
\* started them, one title per heading met, and an article in which no
\* heading is met gives no section, paragraphs and figures or not.
C15_SectionsInHeadingOrder ==
    seg_pc = "done" =>
        LET heads == SelectSeq(doc, IsHeading)
        IN /\ parsed.sections = sections
           /\ Len(sections) = Len(heads)
           /\ \A k \in 1..Len(heads) :
                  sections[k].title = get_text(heads[k].node.text)

\* C15 witness: three headings, "N", blank and "I", gave three sections with
\* these titles in this order.
C15_Witness ==
    /\ seg_pc = "done"
    /\ Len(sections) = 3
    /\ sections[1].title = <<"N">>
    /\ sections[2].title = <<>>
    /\ sections[3].title = <<"I">>

\* C16 as stated: the main image is the image of the first figure of the
\* article in document order, wherever the figure lies, and is absent only
\* when the article has no figure with an image.
C16_FirstFigureOfArticle ==
    seg_pc = "done" =>
        LET figs == SelectSeq(doc, IsAnyFigureWithImage)
        IN IF figs = <<>> THEN main_image = None
           ELSE main_image = figs[1].node.src

\* C16 amended: the figures that count are those the pass visits, the
\* children of a wrapper: the main image is the image source of the first of
\* them that has one, before any heading or inside a section, once set it is
\* never changed, and it is absent only when no such figure has an image.
C16_FirstVisitedFigure ==
    /\ [](seg_pc # "idle" =>
              LET figs == SelectSeq(doc, IsFigureWithImage)
              IN /\ IF figs = <<>> THEN main_image = None
                    ELSE main_image = figs[1].node.src
                 /\ seg_pc = "done" => parsed.mainImage = main_image)
    /\ [][main_image # None => main_image' = main_image]_vars

\* C16 witness: a figure before any heading set the main image and a later
\* figure with another image, inside a section, did not change it.
C16_Witness ==
    /\ seg_pc = "done"
    /\ main_image = Url("2.png")
    /\ Len(sections) = 1
    /\ sections[1].images = <<Url("1.png")>>

\* The nodes met after the first heading.
RECURSIVE AfterFirstHeading(_)
AfterFirstHeading(toks) ==
    IF toks = <<>> THEN <<>>
    ELSE IF IsHeading(Head(toks)) THEN Tail(toks)
    ELSE AfterFirstHeading(Tail(toks))

\* The texts of the paragraphs among the nodes, each with its newline.
RECURSIVE ParagraphText(_)
ParagraphText(toks) ==
    IF toks = <<>> THEN <<>>
    ELSE (IF IsParagraph(Head(toks))
          THEN get_text(Head(toks).node.text) \o <<"\n">> ELSE <<>>)
         \o ParagraphText(Tail(toks))

\* The bodies of the sections, one after the other.
RECURSIVE Bodies(_)
Bodies(secs) ==
    IF secs = <<>> THEN <<>> ELSE Head(secs).content \o Bodies(Tail(secs))

\* C17: a paragraph before the first heading adds no text to any section:
\* while no heading has been met there is no section at all, and the bodies
\* of the sections returned hold the text of the paragraphs met after the
\* first heading and nothing else.
C17_EarlyParagraphsDropped ==
    /\ (seg_pc \in {"article", "div"} /\ SelectSeq(doc, IsHeading) = <<>>) =>
           sections = <<>> /\ current_section = None
    /\ seg_pc = "done" =>
           Bodies(sections) = ParagraphText(AfterFirstHeading(doc))

\* C17 witness: a paragraph, then a heading, then another paragraph: the one
\* section holds the second paragraph's text only.
C17_Witness ==
    /\ seg_pc = "done"
    /\ doc = <<UnderArticle([name |-> "div"]),
               UnderDiv([name |-> "p", text |-> Hello]),
               UnderDiv([name |-> "h1", text |-> Intro]),
               UnderDiv([name |-> "p", text |-> World])>>
    /\ sections = <<[title |-> <<"I">>, content |-> <<"W", "!", "\n">>,
                     images |-> <<>>]>>

\* C18: every section returned has a title that is not empty, also for an
\* article whose heading has no text or white space only.
C18_TitlesNotEmpty ==
    seg_pc = "done" => \A k \in 1..Len(sections) : sections[k].title # <<>>

\* The number of headings met so far.
HeadingsMet == Len(SelectSeq(doc, IsHeading))

\* C22: every heading met gives exactly one section: the list only ever
\* grows by the section in progress being appended, the sections appended and
\* the one in progress are as many as the headings met, and the list returned
\* has as many sections as there were headings.
C22_OneSectionPerHeading ==
    /\ [](/\ seg_pc \in {"article", "div"} =>
                /\ Len(sections) + (IF current_section # None THEN 1 ELSE 0)
                       = HeadingsMet
                /\ current_section # None <=> HeadingsMet > 0
          /\ seg_pc = "done" => Len(parsed.sections) = HeadingsMet)
    /\ [][\/ sections' = sections
          \/ sections' = Append(sections, current_section)]_vars

\* C22 witness: three headings, the first two with the same text, gave three
\* sections.
C22_Witness ==
    /\ seg_pc = "done"
    /\ HeadingsMet = 3
    /\ Len(parsed.sections) = 3
    /\ parsed.sections[1] = parsed.sections[2]
    /\ parsed.sections[3].title = <<"N">>

\* The nodes before the first heading.
RECURSIVE UntilHeading(_)
UntilHeading(toks) ==
    IF toks = <<>> \/ IsHeading(Head(toks)) THEN <<>>
    ELSE <<Head(toks)>> \o UntilHeading(Tail(toks))

\* The nodes after the k-th heading and before the next.
RECURSIVE SpanOf(_, _)
SpanOf(toks, k) ==
    IF toks = <<>> THEN <<>>
    ELSE IF IsHeading(Head(toks))
         THEN IF k = 1 THEN UntilHeading(Tail(toks))
              ELSE SpanOf(Tail(toks), k - 1)
         ELSE SpanOf(Tail(toks), k)

\* C23: the body of each section returned is the trimmed text of every
\* paragraph met after its heading and before the next heading, in order,
\* each followed by one newline, and nothing else.
C23_BodyIsItsParagraphs ==
    seg_pc = "done" =>
        \A k \in 1..Len(sections) :
            sections[k].content = ParagraphText(SpanOf(doc, k))

\* C23 witness: a heading and two paragraphs: the body is the two trimmed
\* texts, a newline after each.
C23_Witness ==
    /\ seg_pc = "done"
    /\ doc = <<UnderArticle([name |-> "div"]),
               UnderDiv([name |-> "h1", text |-> Intro]),
               UnderDiv([name |-> "p", text |-> Hello]),
               UnderDiv([name |-> "p", text |-> World])>>
    /\ sections = <<[title |-> <<"I">>,
                     content |-> <<"H", "\n", "W", "!", "\n">>,
                     images |-> <<>>]>>

\* The image sources of the figures among the nodes.
RECURSIVE FigureSources(_)
FigureSources(toks) ==
    IF toks = <<>> THEN <<>>
    ELSE (IF IsFigureWithImage(Head(toks))
          THEN <<Head(toks).node.src>> ELSE <<>>)
         \o FigureSources(Tail(toks))

\* C24: the image list of each section returned holds the sources of the
\* figures met after its heading and before the next, in order, whether or
\* not one of them became the main image; a figure met while no section is in
\* progress is in no list and leaves no section behind.
C24_FiguresGoToTheirSection ==
    /\ seg_pc = "done" =>
           \A k \in 1..Len(sections) :
               sections[k].images = FigureSources(SpanOf(doc, k))
    /\ (seg_pc # "idle" /\ HeadingsMet = 0) =>
           sections = <<>> /\ current_section = None

\* C24 witness: two figures in one section; the first became the main image
\* and is in the section's list too.
C24_Witness ==
    /\ seg_pc = "done"
    /\ main_image = Url("1.png")
    /\ Len(sections) = 1
    /\ sections[1].images = <<Url("1.png"), Url("2.png")>>

\* The document without the anchors under the article and what they hold.
IsNotAnchor(tok) ==
    /\ tok.at # "a"
    /\ ~(tok.at = "article" /\ tok.node.name = "a")

\* C25: an anchor under the article is skipped with all it holds: what is
\* returned is what parse_story returns for the document without the anchors
\* and what lies beneath them.
C25_AnchorsSkipped ==
    seg_pc = "done" => parsed = parse_story(SelectSeq(doc, IsNotAnchor))

\* C25 witness: an anchor holding a heading, then a wrapper with a heading:
\* one section, from the wrapper's heading.
C25_Witness ==
    /\ seg_pc = "done"
    /\ doc = <<UnderArticle([name |-> "a"]),
               UnderAnchor([name |-> "h1", text |-> Intro]),
               UnderArticle([name |-> "div"]),
               UnderDiv([name |-> "h1", text |-> NextT])>>
    /\ parsed.sections =
           <<[title |-> <<"N">>, content |-> <<>>, images |-> <<>>]>>

\* The node is a child of a wrapper under the article.
IsWrapperChild(tok) == tok.at = "div"

\* C26: only the children of a wrapper under the article count: a node under
\* the article itself, or under a wrapper inside a wrapper, leaves the
\* sections, the section in progress and the main image as they were, and
\* what is returned is what the children of the wrappers alone give.
C26_OneLevelOnly ==
    /\ [](seg_pc = "done" =>
              parsed = parse_story(SelectSeq(doc, IsWrapperChild)))
    /\ [][(Len(doc') > Len(doc) /\ ~IsWrapperChild(doc'[Len(doc) + 1])) =>
              UNCHANGED <<sections, current_section, main_image>>]_vars

\* C26 witness: a heading under the article and a figure in a wrapper inside
\* a wrapper: no section and no main image.
C26_Witness ==
    /\ seg_pc = "done"
    /\ doc = <<UnderArticle([name |-> "h1", text |-> Intro]),
               UnderArticle([name |-> "div"]),
               UnderDiv(NestedDiv),
               UnderNested([name |-> "figure", img |-> TRUE,
                            src |-> Url("1.png")])>>
    /\ parsed = [sections |-> <<>>, mainImage |-> None]

\* C27: the section in progress survives the end of a wrapper and the start
\* of the next: neither changes the sections or the section in progress, a
\* section once in progress stays so until a heading replaces it, and the
\* list grows only at a heading or at the end of the pass.
C27_SectionSurvivesWrappers ==
    /\ [][seg_pc' # seg_pc /\ seg_pc' # "done" =>
              UNCHANGED <<sections, current_section, main_image>>]_vars
    /\ [][current_section # None => current_section' # None]_vars
    /\ [][sections' # sections =>
              \/ seg_pc' = "done"
              \/ /\ Len(doc') = Len(doc) + 1
                 /\ IsHeading(doc'[Len(doc')])]_vars

\* C27 witness: a heading in one wrapper and a paragraph in the next: the
\* paragraph's text is in the heading's section.
C27_Witness ==
    /\ seg_pc = "done"
    /\ doc = <<UnderArticle([name |-> "div"]),
               UnderDiv([name |-> "h1", text |-> Intro]),
               UnderArticle([name |-> "div"]),
               UnderDiv([name |-> "p", text |-> Hello])>>
    /\ sections = <<[title |-> <<"I">>, content |-> <<"H", "\n">>,
                     images |-> <<>>]>>

\* ------------------------------------------------------------- records

\* The records fetch_full_stories holds or has returned.
Records ==
    Range(all_stories) \cup Range(batch_stories)
        \cup (IF pc = "returned" THEN Range(result) ELSE {})

\* C19: no partial record is emitted: every record carries the fields of a
\* listed summary that did not fail, unchanged, with the section list and the
\* main image of a parse_story that ran to its end on that item's article, and
\* nothing else; an item that failed has no record.
C19_NoPartialRecord ==
    \A r \in Records :
        /\ DOMAIN r = {"page", "idx", "sections", "mainImage"}
        /\ Summary(r.page, r.idx) \in Range(listing) \ failed
        /\ r.sections = parse_story(ArticleOf(Summary(r.page, r.idx))).sections
        /\ r.mainImage = parse_story(ArticleOf(Summary(r.page, r.idx))).mainImage

\* C19 witness: of three items the third failed; the list returned holds the
\* first with its two sections and main image and the second with no section
\* and its main image.
C19_Witness ==
    /\ pc = "returned"
    /\ failed = {Summary(1, 3)}
    /\ Len(result) = 2
    /\ result[1].idx = 1
    /\ Len(result[1].sections) = 2
    /\ result[1].sections[2] =
           [title |-> <<"N">>, content |-> <<"W", "!", "\n">>, images |-> <<>>]
    /\ result[1].mainImage = Url("1.png")
    /\ result[2].idx = 2
    /\ result[2].sections = <<>>
    /\ result[2].mainImage = Url("2.png")

\* ------------------------------------------------------------- requests

\* C21: every listing request asks for a page of 10, whatever the budget
\* (smaller than 10, or none) and whatever the mode.
C21_PageSizeTen ==
    \A k \in 1..Len(listing_requests) : listing_requests[k].limit = 10

\* C21 witness: a budget of 1 in parallel mode and two listing requests, each
\* for a page of 10.
C21_Witness ==
    /\ count = 1
    /\ parallel
    /\ Len(listing_requests) = 2
    /\ listing_requests[1].limit = 10
    /\ listing_requests[2].limit = 10
    /\ listing_requests[2].cursor = CursorAfter(1)

\* The batch in hand has been enriched to its end and merged.
BatchesDone == pc \in {"fetch", "returned"}

\* C28 as stated: once the batch is done, past the budget check, every item
\* listed has had its page requested once and segmented once.
C28_EveryItemSegmentedOnce ==
    BatchesDone =>
        \A item \in Range(listing) :
            /\ CopiesIn(item, item_requests) = 1
            /\ CopiesIn(item, segmented) = 1

\* C28 amended: an item's page is never requested twice nor segmented twice;
\* once the batch is done, at the budget check and after it, every item
\* listed has had its page requested exactly once, and segmented exactly once
\* unless its request or the lookup of the article failed, in which case it
\* was not segmented at all; this includes the items the truncation drops,
\* and a budget of 0 issues one listing request, enriches that page and
\* returns the empty list.
C28_EveryItemRequestedOnce ==
    /\ \A item \in BagToSet(item_requests) \cup BagToSet(segmented) :
           /\ item \in Range(listing)
           /\ CopiesIn(item, item_requests) = 1
           /\ CopiesIn(item, segmented) <= 1
    /\ BatchesDone =>
           \A item \in Range(listing) :
               /\ CopiesIn(item, item_requests) = 1
               /\ CopiesIn(item, segmented) = IF item \in failed THEN 0 ELSE 1
    /\ (count = 0 /\ pc = "returned") =>
           Len(listing_requests) = 1 /\ result = <<>>

\* C28 witness: a budget of 0 and a page of three items: all three were
\* requested, the second failed, the other two were segmented, and the list
\* returned is empty.
C28_Witness ==
    /\ count = 0
    /\ pc = "returned"
    /\ Len(listing_requests) = 1
    /\ Len(listing) = 3
    /\ failed = {Summary(1, 2)}
    /\ item_requests = SetToBag(Range(listing))
    /\ segmented = SetToBag({Summary(1, 1), Summary(1, 3)})
    /\ result = <<>>

====
